---- MODULE Spec2Model ----
(***************************************************************************)
(* Model of escape_eschalon.py: the Ship class (move generation, blast     *)
(* zone tracking, impossible-gap scan, equilibrium-steered search loop)    *)
(* and main() (path reconstruction).                                       *)
(*                                                                         *)
(* Ship objects live in the arena `ships`; every reference the program     *)
(* holds to a Ship (parent, priority_queue, queue, visited_nodes, child)   *)
(* is an index into the arena, 0 standing for None.                        *)
(***************************************************************************)
EXTENDS Integers, Sequences, FiniteSets, TLC

\* ---------------------------------------------------------------- bounds
MaxLen == 6        \* longest asteroid list drawn as input
MaxBlast == 2      \* largest t_per_blast_move drawn as input
MaxSteps == 12     \* cap on the iterations of the while loop of one run
MaxRuns == 2       \* calls of main() in one process (SpecRerun only)

VARIABLES
    asteroids,          \* inp['asteroids']: sequence of slots
    t_per_blast_move,   \* inp['t_per_blast_move']
    ships,              \* arena of every Ship object that is referenced
    start_ship,         \* main: index of the root Ship of the current run
    visited_nodes,      \* Ship.visited_nodes (class-level list, shared)
    unchangable_ships,  \* start_ship.unchangable_ships: list of (start, length)
    priority_queue,     \* start_ship.priority_queue
    queue,              \* local `queue` of move_with_equilibrium
    i,                  \* local `i` of move_with_equilibrium (gap index)
    child,              \* local `child` of move_with_equilibrium
    need_to_be_ship,    \* local `need_to_be_ship`; <<>> while unbound
    equilibrium,        \* start_ship.equilibrium (class default 0)
    pc,                 \* position of main(): input, start, loop, returned, done,
                        \* error
    err,                \* name of the exception that ended the run, "" if none
    solution,           \* main: the acceleration list that is logged
    escaped,            \* main: the boolean that is logged
    last_call,          \* observation of the latest get_queue call
    last_pick,          \* observation of the latest child selection
    steps,              \* iterations of the while loop run so far
    results             \* outcomes of the earlier main() calls of the process

vars == <<asteroids, t_per_blast_move, ships, start_ship, visited_nodes,
          unchangable_ships, priority_queue, queue, i, child,
          need_to_be_ship, equilibrium, pc, err, solution, escaped,
          last_call, last_pick, steps, results>>

\* ------------------------------------------------------------ Ship object
\* d of the root Ship: the `d=None` default of __init__
None_d == 2

directions_ascending == <<-1, 0, 1>>
directions == <<1, 0, -1>>

\* Ship.__init__; blast_position is the class default until += shadows it
Ship(p, vel, d, t, parent) ==
    [pos |-> p, v |-> vel, d |-> d, t |-> t, parent |-> parent,
     blast_position |-> 0]

\* Ship.__eq__
eq(a, b) == <<a.pos, a.v>> = <<b.pos, b.v>>

\* `x in self.visited_nodes` (list membership through __eq__)
in_visited(ss, visited) ==
    \E k \in 1..Len(visited) : eq(ss, ships[visited[k]])

\* Python list indexing, negative indices counted from the end
PyIndexOK(seq, k) == k >= -Len(seq) /\ k < Len(seq)
PyIndex(seq, k) == IF k < 0 THEN seq[Len(seq) + k + 1] ELSE seq[k + 1]

\* Ship.pos_full_next_turn: "full", "free" or the exception raised
pos_full_this_turn(self, pos) ==
    IF ~PyIndexOK(asteroids, pos - 1) THEN "IndexError"
    ELSE LET ast == PyIndex(asteroids, pos - 1)
             cycle == ast.t_per_asteroid_cycle
         IN IF cycle = 0 THEN "ZeroDivisionError"
            ELSE IF (ast.offset + self.t) % cycle = 0 THEN "full"
            ELSE "free"
pos_full_next_turn(self, pos) ==
    IF ~PyIndexOK(asteroids, pos - 1) THEN "IndexError"
    ELSE LET ast == PyIndex(asteroids, pos - 1)
             cycle == ast.t_per_asteroid_cycle
         IN IF cycle = 0 THEN "ZeroDivisionError"
            ELSE IF (ast.offset + self.t + 1) % cycle = 0 THEN "full"
            ELSE "free"

\* Ship.blast_zone_check on a Ship whose blast_position is bp
blast_zone_check_behind(bp, pos, t) ==
    IF pos <= bp /\ bp # 0
    THEN [ok |-> FALSE, blast_position |-> bp]
    ELSE IF t > 0 /\ t % t_per_blast_move = 0
         THEN [ok |-> TRUE, blast_position |-> bp + t_per_blast_move]
         ELSE [ok |-> TRUE, blast_position |-> bp]
blast_zone_check(bp, pos, t) ==
    IF pos <= bp /\ bp # 0 /\ pos < 0
    THEN [ok |-> FALSE, blast_position |-> bp]
    ELSE IF t > 0 /\ t % t_per_blast_move = 0
         THEN [ok |-> TRUE, blast_position |-> bp + t_per_blast_move]
         ELSE [ok |-> TRUE, blast_position |-> bp]

\* get_queue, line 136: `if next_pos < 0: continue`
negative_skip_always_false(next_pos) == FALSE
negative_skip(next_pos) == next_pos < 0

\* get_queue, line 140: `if next_pos >= len(self.asteroids)`
is_finishing_strict(next_pos) == next_pos > Len(asteroids)
is_finishing(next_pos) == next_pos >= Len(asteroids)

\* get_queue, lines 142-147: the finishing step returns a one-element list
finishing_step_append(acc, ss) == [acc EXCEPT !.out = Append(@, ss)]
\* (discarded counts the candidates of `out` that the return drops)
finishing_step(acc, ss) ==
    [acc EXCEPT !.out = <<ss>>, !.status = "returned",
                !.discarded = @ + Len(acc.out)]

\* get_queue, lines 142-147 and 149-154: the Ship built for direction dd
child_ship_same_time(selfIdx, dd) ==
    Ship(ships[selfIdx].pos + ships[selfIdx].v + dd, ships[selfIdx].v + dd,
         dd, ships[selfIdx].t, selfIdx)
child_ship(selfIdx, dd) ==
    Ship(ships[selfIdx].pos + ships[selfIdx].v + dd, ships[selfIdx].v + dd,
         dd, ships[selfIdx].t + 1, selfIdx)

\* get_queue, lines 135-157: the body of the loop for one direction dd
direction_step(acc, selfIdx, dd, visited) ==
    LET self == ships[selfIdx]
        next_pos == self.pos + self.v + dd
        chk == blast_zone_check(acc.blast_position, next_pos, self.t)
        acc1 == [acc EXCEPT !.checks = @ + 1,
                            !.blast_position = chk.blast_position]
        ss == child_ship(selfIdx, dd)
    IN  IF negative_skip(next_pos) THEN acc
        ELSE IF ~chk.ok THEN [acc1 EXCEPT !.rejects = @ + 1]
        ELSE IF is_finishing(next_pos) THEN finishing_step(acc1, ss)
        ELSE LET full == pos_full_next_turn(self, next_pos)
             IN IF full \in {"IndexError", "ZeroDivisionError"}
                THEN [acc1 EXCEPT !.status = full]
                ELSE IF full = "free" /\ ~in_visited(ss, visited)
                     THEN [acc1 EXCEPT !.out = Append(@, ss)]
                     ELSE acc1

RECURSIVE directions_from(_, _, _, _)
\* get_queue, line 134: `for dd in self.directions`, from the k-th direction
\* (the singleton set makes TLC evaluate each step once)
directions_from(k, acc, selfIdx, visited) ==
    IF k > Len(directions) \/ acc.status # "running" THEN acc
    ELSE CHOOSE res \in
             {directions_from(k + 1, nxt, selfIdx, visited) :
                 nxt \in {direction_step(acc, selfIdx, directions[k],
                                         visited)}} : TRUE

\* Ship.get_queue of ships[selfIdx] against the visited list `visited`:
\* out = the Ships returned, checks = calls of blast_zone_check,
\* rejects = calls of it that returned False,
\* blast_position = self.blast_position afterwards,
\* status = "running"/"returned" (normal return) or the exception raised
get_queue(selfIdx, visited) ==
    directions_from(1,
                    [out |-> <<>>, checks |-> 0, rejects |-> 0,
                     discarded |-> 0,
                     blast_position |-> ships[selfIdx].blast_position,
                     status |-> "running"],
                    selfIdx, visited)

\* ------------------------------------------------------ impossible gaps
\* find_impossible_gaps.safe
safe_inverted(cycle) == cycle = 1
safe(cycle) == cycle # 1

\* lines 183-184: the record appended when a safe slot ends a streak at idx
end_record_short(idx, speed) == <<idx - (speed + 1), speed>>
end_record(idx, speed) == <<idx - (speed + 1), speed + 1>>

\* lines 191-192: the record appended when the scan ends inside a streak
trailing_record_at_run(idx, speed) == <<idx - speed + 1, speed + 1>>
trailing_record(idx, speed) == <<idx - speed, speed + 1>>

RECURSIVE scan(_, _, _)
\* lines 172-188: the for loop from 0-based index idx on
scan(idx, speed, gaps) ==
    IF idx >= Len(asteroids) THEN [speed |-> speed, gaps |-> gaps]
    ELSE LET cycle == asteroids[idx + 1].t_per_asteroid_cycle
             speed1 == IF ~safe(cycle) THEN speed + 1 ELSE speed
         IN IF safe(cycle) /\ speed1 # 0
            THEN scan(idx + 1, 0, Append(gaps, end_record(idx, speed1)))
            ELSE IF safe(cycle) THEN scan(idx + 1, 0, gaps)
            ELSE scan(idx + 1, speed1, gaps)

\* Ship.find_impossible_gaps: the value left in self.unchangable_ships
find_impossible_gaps ==
    LET r == scan(0, 0, <<>>)
    IN  IF r.speed # 0
        THEN Append(r.gaps, trailing_record(Len(asteroids) - 1, r.speed))
        ELSE r.gaps

\* ------------------------------------------------------------- main()
RECURSIVE walk_parents_appending(_, _)
walk_parents_appending(idx, acc) ==
    IF ships[idx].parent = 0 THEN acc
    ELSE walk_parents_appending(ships[idx].parent, acc \o <<ships[idx].d>>)

RECURSIVE walk_parents(_, _)
\* main, lines 271-273: prepend d while the Ship has a parent
walk_parents(idx, acc) ==
    IF ships[idx].parent = 0 THEN acc
    ELSE walk_parents(ships[idx].parent, <<ships[idx].d>> \o acc)

NoCall == [self |-> 0, out |-> <<>>, checks |-> 0, rejects |-> 0,
           discarded |-> 0, before |-> 0, after |-> 0, status |-> "none",
           first_pos |-> 0]
NoPick == [from |-> "none", index |-> 0, seen |-> FALSE]

\* the observation of a get_queue call r made on ships[selfIdx]; the Ships
\* it returned are stored in the arena right after the existing ones
Observe(selfIdx, r) ==
    [self |-> selfIdx,
     out |-> [k \in 1..Len(r.out) |-> Len(ships) + k],
     checks |-> r.checks,
     rejects |-> r.rejects,
     discarded |-> r.discarded,
     before |-> ships[selfIdx].blast_position,
     after |-> r.blast_position,
     status |-> r.status,
     first_pos |-> ships[selfIdx].pos + ships[selfIdx].v + directions[1]]

\* the arena after a get_queue call r on ships[selfIdx]
Arena(selfIdx, r) ==
    [ships EXCEPT ![selfIdx].blast_position = r.blast_position] \o r.out

\* the kinds of slot drawn as input: cycle 0 (outside the documented
\* domain), always occupied (cycle 1), occupied at the even turns and at the
\* odd turns (cycle 2 with offsets 0 and 1)
Slots ==
    {[t_per_asteroid_cycle |-> 0, offset |-> 0],
     [t_per_asteroid_cycle |-> 1, offset |-> 0],
     [t_per_asteroid_cycle |-> 2, offset |-> 0],
     [t_per_asteroid_cycle |-> 2, offset |-> 1]}
Fields == UNION {[1..n -> Slots] : n \in 0..MaxLen}

\* the process has started and main() has not read its input yet
Init ==
    /\ asteroids = <<>>
    /\ t_per_blast_move = 1
    /\ ships = <<>>
    /\ start_ship = 1
    /\ visited_nodes = <<>>
    /\ unchangable_ships = <<>>
    /\ priority_queue = <<>>
    /\ queue = <<>>
    /\ i = 0
    /\ child = 0
    /\ need_to_be_ship = <<>>
    /\ equilibrium = 0
    /\ pc = "input"
    /\ err = ""
    /\ solution = <<>>
    /\ escaped = FALSE
    /\ last_call = NoCall
    /\ last_pick = NoPick
    /\ steps = 0
    /\ results = <<>>

\* main, lines 254-266: the input is parsed and start_ship is constructed
LoadInput ==
    /\ pc = "input"
    /\ asteroids' \in Fields
    /\ t_per_blast_move' \in 1..MaxBlast
    /\ ships' = <<Ship(0, 0, None_d, 0, 0)>>
    /\ pc' = "start"
    /\ UNCHANGED <<start_ship, visited_nodes, unchangable_ships,
                   priority_queue, queue, i, child, need_to_be_ship,
                   equilibrium, err, solution, escaped, last_call, last_pick,
                   steps, results>>

\* move_with_equilibrium, lines 202-206
MoveStart ==
    /\ pc = "start"
    /\ \E r \in {get_queue(start_ship, visited_nodes)} :
          /\ unchangable_ships' = find_impossible_gaps
          /\ ships' = Arena(start_ship, r)
          /\ last_call' = Observe(start_ship, r)
          /\ IF r.status \in {"running", "returned"}
             THEN /\ priority_queue' = Observe(start_ship, r).out
                  /\ queue' = Observe(start_ship, r).out
                  /\ pc' = "loop"
                  /\ err' = ""
             ELSE /\ UNCHANGED <<priority_queue, queue>>
                  /\ pc' = "error"
                  /\ err' = r.status
    /\ i' = 0
    /\ child' = 0
    /\ UNCHANGED <<asteroids, t_per_blast_move, start_ship, visited_nodes,
                   need_to_be_ship, equilibrium, solution, escaped,
                   last_pick, steps, results>>

\* lines 211-222: the choice of child; rest = priority_queue afterwards
pop_last_peek(pq) == [item |-> pq[Len(pq)], rest |-> pq, index |-> Len(pq)]
pop_last(pq) ==
    [item |-> pq[Len(pq)], rest |-> SubSeq(pq, 1, Len(pq) - 1),
     index |-> Len(pq)]

select_child_from_open ==
    IF priority_queue # <<>>
    THEN LET k == IF equilibrium < 0 THEN 0
                  ELSE IF equilibrium > 0 THEN Len(priority_queue) - 1
                  ELSE Len(priority_queue) \div 2
         IN [item |-> priority_queue[k + 1], rest |-> priority_queue,
             index |-> k]
    ELSE pop_last(priority_queue)
select_child ==
    IF queue # <<>>
    THEN LET k == IF equilibrium < 0 THEN 0
                  ELSE IF equilibrium > 0 THEN Len(queue) - 1
                  ELSE Len(queue) \div 2
         IN [item |-> queue[k + 1], rest |-> priority_queue, index |-> k]
    ELSE pop_last(priority_queue)

\* lines 227-228: `if child not in self.visited_nodes: append`
visit_always_append(visited, c) == Append(visited, c)
visit(visited, c) ==
    IF in_visited(ships[c], visited) THEN visited ELSE Append(visited, c)

\* line 224: `if child.pos >= len(self.asteroids) - 1: break`
is_success_before_end(c) == ships[c].pos >= Len(asteroids) - 2
is_success(c) == ships[c].pos >= Len(asteroids) - 1

\* move_with_equilibrium, lines 208-242: one iteration of the while loop
Iterate ==
    /\ pc = "loop"
    /\ priority_queue # <<>>
    /\ steps < MaxSteps
    /\ steps' = steps + 1
    /\ IF unchangable_ships # <<>> /\ ~PyIndexOK(unchangable_ships, i)
       THEN \* line 210 raises
            /\ pc' = "error"
            /\ err' = "IndexError"
            /\ UNCHANGED <<ships, visited_nodes, priority_queue, queue, i,
                           child, need_to_be_ship, equilibrium, last_call,
                           last_pick>>
       ELSE \E sel \in {select_child} :
            \E visited \in {visit(visited_nodes, sel.item)} :
            \E r \in {get_queue(sel.item, visited)} :
            LET need == IF unchangable_ships # <<>>
                        THEN PyIndex(unchangable_ships, i)
                        ELSE need_to_be_ship
                c == sel.item
                new == Observe(c, r).out
            IN  /\ need_to_be_ship' = need
                /\ child' = c
                /\ last_pick' = [from |-> IF queue # <<>> THEN "queue"
                                          ELSE "pop",
                                 index |-> sel.index,
                                 seen |-> in_visited(ships[c], visited_nodes)]
                /\ IF is_success(c)
                   THEN \* line 225: break
                        /\ pc' = "returned"
                        /\ priority_queue' = sel.rest
                        /\ UNCHANGED <<ships, visited_nodes, queue, i,
                                       equilibrium, last_call, err>>
                   ELSE IF need = <<>>
                   THEN \* line 229 reads the unbound local
                        /\ pc' = "error"
                        /\ err' = "UnboundLocalError"
                        /\ visited_nodes' = visited
                        /\ priority_queue' = sel.rest
                        /\ UNCHANGED <<ships, queue, i, equilibrium,
                                       last_call>>
                   ELSE /\ visited_nodes' = visited
                        /\ i' = IF ships[c].pos >= need[1]
                                   /\ i < Len(unchangable_ships)
                                THEN i + 1 ELSE i
                        /\ equilibrium' = ships[c].v - need[2]
                        /\ ships' = Arena(c, r)
                        /\ last_call' = Observe(c, r)
                        /\ IF r.status \in {"running", "returned"}
                           THEN /\ queue' = new
                                /\ priority_queue' = sel.rest \o new
                                /\ pc' = "loop"
                                /\ err' = ""
                           ELSE /\ priority_queue' = sel.rest
                                /\ UNCHANGED queue
                                /\ pc' = "error"
                                /\ err' = r.status
    /\ UNCHANGED <<asteroids, t_per_blast_move, start_ship,
                   unchangable_ships, solution, escaped, results>>

\* lines 208 and 243: the while condition fails and child is returned
LoopExit ==
    /\ pc = "loop"
    /\ priority_queue = <<>>
    /\ pc' = "returned"
    /\ UNCHANGED <<asteroids, t_per_blast_move, ships, start_ship,
                   visited_nodes, unchangable_ships, priority_queue, queue,
                   i, child, need_to_be_ship, equilibrium, err, solution,
                   escaped, last_call, last_pick, steps, results>>

\* main, lines 268-278: the path is rebuilt and logged
Reconstruct ==
    /\ pc = "returned"
    /\ IF child = 0
       THEN \* line 269: None has no attribute pos
            /\ pc' = "error"
            /\ err' = "AttributeError"
            /\ UNCHANGED <<solution, escaped>>
       ELSE /\ pc' = "done"
            /\ solution' = walk_parents(child, <<>>)
            /\ escaped' = (ships[child].pos >= Len(asteroids))
            /\ UNCHANGED err
    /\ UNCHANGED <<asteroids, t_per_blast_move, ships, start_ship,
                   visited_nodes, unchangable_ships, priority_queue, queue,
                   i, child, need_to_be_ship, equilibrium, last_call,
                   last_pick, steps, results>>

\* what main() logged (or raised) in the run that just ended
Outcome == [solution |-> solution, escaped |-> escaped, err |-> err]

\* main() is called again in the same process on the same input: a new
\* start_ship is constructed (lines 263-266), the locals and the instance
\* attributes start afresh, the class-level visited_nodes list is kept
Rerun ==
    /\ pc = "done"
    /\ Len(results) + 1 < MaxRuns
    /\ results' = Append(results, Outcome)
    /\ ships' = Append(ships, Ship(0, 0, None_d, 0, 0))
    /\ start_ship' = Len(ships) + 1
    /\ unchangable_ships' = <<>>
    /\ priority_queue' = <<>>
    /\ queue' = <<>>
    /\ i' = 0
    /\ child' = 0
    /\ need_to_be_ship' = <<>>
    /\ equilibrium' = 0
    /\ pc' = "start"
    /\ err' = ""
    /\ solution' = <<>>
    /\ escaped' = FALSE
    /\ last_call' = NoCall
    /\ last_pick' = NoPick
    /\ steps' = 0
    /\ UNCHANGED <<asteroids, t_per_blast_move, visited_nodes>>

Next == LoadInput \/ MoveStart \/ Iterate \/ LoopExit \/ Reconstruct

Spec == Init /\ [][Next]_vars

\* the interpreter runs main() to its end: every enabled step is taken
FairSpec == Spec /\ WF_vars(Next)

NextRerun == Next \/ Rerun

\* one process that calls main() up to MaxRuns times
SpecRerun == Init /\ [][NextRerun]_vars

\* ============================================================== claims
cycle_at(k) == asteroids[k].t_per_asteroid_cycle

AllCyclesPositive == \A k \in 1..Len(asteroids) : cycle_at(k) >= 1
\* move_with_equilibrium has run its prologue (gap scan, first get_queue)
Started == pc \notin {"input", "start"}

HasZeroCycle == \E k \in 1..Len(asteroids) : cycle_at(k) = 0

\* C1: get_queue never returns a candidate, terminal or not, whose position
\* is below 0: every Ship a get_queue call has created so far has pos >= 0.
C1_NoNegativePosition ==
    \A k \in 1..Len(ships) : ships[k].parent # 0 => ships[k].pos >= 0

\* a call on a Ship other than the root that returned candidates although
\* one of its directions led below 0
C1_Witness ==
    /\ last_call.self # 0
    /\ last_call.self # start_ship
    /\ last_call.out # <<>>
    /\ ships[last_call.self].pos + ships[last_call.self].v - 1 < 0

\* C2: on a Field whose cycles are all >= 1 the search loop started from the
\* root eventually stops (it returns or it raises); it never runs forever.
C2_Terminates ==
    (pc = "start" /\ AllCyclesPositive)
        ~> (pc \in {"returned", "done", "error"})

\* a search that came back to an already visited Ship through the pop of
\* line 222 and then stopped because the priority queue ran empty
C2_Witness ==
    /\ AllCyclesPositive
    /\ pc = "returned"
    /\ steps >= 2
    /\ last_pick.from = "pop"
    /\ last_pick.seen
    /\ priority_queue = <<>>

\* C3: a run of main() that follows an earlier run on the same input in the
\* same process logs the same acceleration list and the same escaped flag
\* (or ends in the same way) as the first run did.
C3_Deterministic ==
    (results # <<>> /\ pc \in {"done", "error"}) => Outcome = results[1]

\* C4: visited_nodes never holds two entries with the same (pos, v) key.
C4_VisitedDistinct ==
    \A j, k \in 1..Len(visited_nodes) :
        j # k => ~eq(ships[visited_nodes[j]], ships[visited_nodes[k]])

\* a selected child whose key was already in visited_nodes (it was popped
\* from the priority queue a second time) and that was not inserted again
C4_Witness ==
    /\ last_pick.from = "pop"
    /\ last_pick.seen
    /\ pc = "loop"
    /\ \E k \in 1..Len(visited_nodes) : visited_nodes[k] = child

\* C5: when direction +1 already gives next_pos >= len(asteroids), get_queue
\* returns exactly one Ship (that position, v + 1, t + 1, d = +1, parent =
\* the expanded Ship), blast_zone_check was called exactly once in the call
\* and blast_position advanced by at most one t_per_blast_move.
C5_EscapeShortCircuit ==
    (last_call.self # 0 /\ last_call.first_pos >= Len(asteroids)) =>
        /\ last_call.status = "returned"
        /\ Len(last_call.out) = 1
        /\ LET ss == ships[last_call.out[1]]
               self == ships[last_call.self]
           IN  /\ ss.pos = last_call.first_pos
               /\ ss.v = self.v + 1
               /\ ss.t = self.t + 1
               /\ ss.d = 1
               /\ ss.parent = last_call.self
        /\ last_call.checks = 1
        /\ last_call.after - last_call.before \in {0, t_per_blast_move}

\* a short-circuited call on a Ship other than the root in which the single
\* check advanced blast_position
C5_Witness ==
    /\ last_call.self # 0
    /\ last_call.self # start_ship
    /\ last_call.first_pos >= Len(asteroids)
    /\ last_call.after = last_call.before + t_per_blast_move

\* C6: a Field with a slot of cycle 0 is rejected before the search begins:
\* no get_queue call is made on it and the run ends in an error.
C6_ZeroCycleRejected ==
    HasZeroCycle => (last_call = NoCall /\ pc \in {"start", "error"})

\* C7: on a Field of length 0 or 1 the first expansion of the root takes the
\* escape short-circuit and move_with_equilibrium returns a Ship (not None)
\* with t = 1 and pos >= len(asteroids) >= 0; the logged acceleration list
\* is not empty.
C7_ShortField ==
    Len(asteroids) <= 1 =>
        /\ pc # "error"
        /\ Started =>
              /\ last_call.self = start_ship
              /\ last_call.status = "returned"
              /\ Len(last_call.out) = 1
        /\ pc \in {"returned", "done"} =>
              /\ child # 0
              /\ ships[child].t = 1
              /\ ships[child].pos >= Len(asteroids)
              /\ steps = 1
        /\ pc = "done" => (solution # <<>> /\ escaped)

\* Scenario A has run to its end
C7_Witness ==
    /\ asteroids = <<[t_per_asteroid_cycle |-> 2, offset |-> 0]>>
    /\ t_per_blast_move = 2
    /\ pc = "done"
    /\ solution = <<1>>

SingleCycleOne == asteroids = <<[t_per_asteroid_cycle |-> 1, offset |-> 0]>>

\* C8 (as stated): for the Field of one slot with cycle 1 and offset 0,
\* find_impossible_gaps reports exactly one gap and its start_index is 0.
C8_GapAtZero ==
    (SingleCycleOne /\ Started) =>
        (Len(unchangable_ships) = 1 /\ unchangable_ships[1][1] = 0)

\* C8 (amended): for the Field of one slot with cycle 1 and offset 0,
\* find_impossible_gaps reports exactly one gap and its start_index is -1,
\* the index before the slot.
C8_GapAtMinusOne ==
    (SingleCycleOne /\ Started) =>
        (Len(unchangable_ships) = 1 /\ unchangable_ships[1][1] = -1)

\* the scan has run on the one-slot Field
C8_Witness == SingleCycleOne /\ Started /\ unchangable_ships # <<>>

\* slots a..b (1-based) are a maximal run of cycle-1 slots
MaximalRun(a, b) ==
    /\ a <= b
    /\ \A k \in a..b : cycle_at(k) = 1
    /\ a > 1 => cycle_at(a - 1) # 1
    /\ b < Len(asteroids) => cycle_at(b + 1) # 1

\* ... that has a safe slot right before and right after it
BoundedRun(a, b) == MaximalRun(a, b) /\ a > 1 /\ b < Len(asteroids)

\* C9: every maximal run of k >= 1 cycle-1 slots with a safe slot on both
\* sides contributes exactly one gap record, of length k + 1; no record
\* exists beyond the one per maximal run.
C9_BoundedRunRecord ==
    Started =>
        /\ \A a, b \in 1..Len(asteroids) :
              BoundedRun(a, b) =>
                  /\ Cardinality({k \in 1..Len(unchangable_ships) :
                                     unchangable_ships[k][1] = a - 2}) = 1
                  /\ \A k \in 1..Len(unchangable_ships) :
                        unchangable_ships[k][1] = a - 2 =>
                            unchangable_ships[k][2] = (b - a + 1) + 1
        /\ Len(unchangable_ships) =
              Cardinality({r \in (1..Len(asteroids)) \X (1..Len(asteroids)) :
                              MaximalRun(r[1], r[2])})

\* the scan has run on a Field with a bounded run of two cycle-1 slots
C9_Witness ==
    /\ Started
    /\ \E a \in 1..(Len(asteroids) - 1) : BoundedRun(a, a + 1)
    /\ \E k \in 1..Len(unchangable_ships) : unchangable_ships[k][2] = 3

\* C10: on a Field in which every slot has cycle > 1, the empty Field
\* included, find_impossible_gaps leaves an empty gap list.
C10_NoGaps ==
    (Started /\ \A k \in 1..Len(asteroids) : cycle_at(k) > 1) =>
        unchangable_ships = <<>>

\* the scan has run on a non-empty Field whose cycles are all > 1
C10_Witness ==
    /\ Started
    /\ Len(asteroids) >= 2
    /\ \A k \in 1..Len(asteroids) : cycle_at(k) > 1

\* the errors the while loop of move_with_equilibrium raises by itself
LoopErrors == {"UnboundLocalError", "IndexError"}

\* C11: with an empty gap list every iteration uses a sentinel gap of length
\* 0: the loop raises no error, the gap index is never advanced and after
\* each expansion equilibrium equals the chosen child's velocity.
C11_SentinelGap ==
    (Started /\ unchangable_ships = <<>> /\ AllCyclesPositive) =>
        /\ err \notin LoopErrors
        /\ i = 0
        /\ (pc = "loop" /\ steps >= 1) => equilibrium = ships[child].v

\* C12: with a non-empty gap list the gap index stays within
\* 0 .. len(gaps) - 1, so the lookup of line 210 never fails.
C12_GapIndexInBounds ==
    (Started /\ unchangable_ships # <<>>) =>
        /\ i \in 0..(Len(unchangable_ships) - 1)
        /\ err # "IndexError"

\* the index the equilibrium picks in a list: first, last or middle
PivotIndex(list) ==
    IF equilibrium < 0 THEN 1
    ELSE IF equilibrium > 0 THEN Len(list)
    ELSE (Len(list) \div 2) + 1

\* the step is an iteration of the loop that gets as far as choosing a child
Choosing ==
    /\ pc = "loop"
    /\ priority_queue # <<>>
    /\ unchangable_ships # <<>> => PyIndexOK(unchangable_ships, i)

\* C13 (as stated): in every iteration the child is chosen from the whole
\* accumulated open list (priority_queue): first element if equilibrium < 0,
\* last if equilibrium > 0, element len // 2 if equilibrium = 0.
C13_PickFromOpenList ==
    [][Choosing => child' = priority_queue[PivotIndex(priority_queue)]]_vars

\* C13 (amended): in every iteration the child is chosen from `queue`, the
\* list the latest get_queue call returned: first element if equilibrium < 0,
\* last if equilibrium > 0, element len // 2 if equilibrium = 0; only when
\* that list is empty, the last element of the accumulated list is popped.
C13_PickFromLatestQueue ==
    [][Choosing =>
          IF queue # <<>>
          THEN child' = queue[PivotIndex(queue)]
          ELSE child' = priority_queue[Len(priority_queue)]]_vars

\* a child was chosen from a latest list that is shorter than the
\* accumulated list, at a place where the accumulated list holds another Ship
C13_Witness ==
    /\ steps >= 2
    /\ last_pick.from = "queue"
    /\ pc = "loop"
    /\ \E k \in 1..Len(priority_queue) :
          /\ priority_queue[k] = child
          /\ k # last_pick.index + 1

\* C14 (as stated): whenever move_with_equilibrium stops, it returns a Ship
\* (never None) whose pos is >= len(asteroids) - 1; the loop never ends
\* because the open list ran empty.
C14_AlwaysSuccess ==
    pc = "returned" => (child # 0 /\ is_success(child))

\* the Ship was expanded (it is the parent of some Ship) or visited
Handled(c) ==
    \/ \E k \in 1..Len(ships) : ships[k].parent = c
    \/ \E k \in 1..Len(visited_nodes) : visited_nodes[k] = c

\* C14 (amended): whenever move_with_equilibrium returns, either it broke
\* out of the loop on a chosen Ship with pos >= len(asteroids) - 1 (which it
\* neither visited nor expanded), or the priority queue ran empty and it
\* returns the last chosen child, whose pos is < len(asteroids) - 1, or None
\* when no child was ever chosen.
C14_SuccessOrExhausted ==
    pc = "returned" =>
        \/ child # 0 /\ ships[child].pos >= Len(asteroids) - 1
                     /\ ~Handled(child)
        \/ child # 0 /\ ships[child].pos < Len(asteroids) - 1
                     /\ priority_queue = <<>>
        \/ child = 0 /\ priority_queue = <<>> /\ steps = 0

\* the loop has ended on an empty priority queue after choosing children
C14_Witness ==
    /\ pc = "returned"
    /\ child # 0
    /\ priority_queue = <<>>
    /\ ships[child].pos < Len(asteroids) - 1

\* the slot the occupancy check looks at for belt position p
slot_of(p) == PyIndex(asteroids, p - 1)

\* C15: every Ship get_queue created with pos < len(asteroids) sits on a slot
\* that is not occupied at the Ship's own time (its parent's time + 1):
\* (offset + t) mod cycle # 0 for the slot asteroids[pos - 1].
C15_CandidateSlotFree ==
    \A k \in 1..Len(ships) :
        (ships[k].parent # 0 /\ ships[k].pos < Len(asteroids)) =>
            /\ slot_of(ships[k].pos).t_per_asteroid_cycle # 0
            /\ (slot_of(ships[k].pos).offset + ships[k].t)
                   % slot_of(ships[k].pos).t_per_asteroid_cycle # 0

\* a logged path whose last-but-one Ship sits, at time >= 1, on a slot that
\* is occupied at other times
C15_Witness ==
    /\ pc = "done"
    /\ Len(solution) >= 2
    /\ ships[ships[child].parent].pos < Len(asteroids)
    /\ slot_of(ships[ships[child].parent].pos).t_per_asteroid_cycle >= 2

C17_SearchWideBlast ==
    last_call.self # 0 =>
        \A k \in 1..Len(ships) :
            k # last_call.self =>
                ships[k].blast_position <= last_call.before

RECURSIVE hops(_, _)
\* parent links from ships[k] back to a Ship without parent; -1 if more
\* than fuel links are followed
hops(k, fuel) ==
    IF ships[k].parent = 0 THEN 0
    ELSE IF fuel = 0 THEN -1
    ELSE LET h == hops(ships[k].parent, fuel - 1)
         IN IF h = -1 THEN -1 ELSE h + 1

RECURSIVE root_of(_, _)
root_of(k, fuel) ==
    IF ships[k].parent = 0 \/ fuel = 0 THEN k
    ELSE root_of(ships[k].parent, fuel - 1)

\* C18: every Ship get_queue created has t = its parent's t + 1; the parent
\* links form a tree rooted at the start Ship, without a cycle, and the
\* number of links from a Ship back to the root equals the Ship's t.
C18_ParentTree ==
    \A k \in 1..Len(ships) :
        IF ships[k].parent = 0
        THEN k = start_ship /\ ships[k].t = 0
        ELSE /\ ships[k].parent \in 1..Len(ships)
             /\ ships[k].t = ships[ships[k].parent].t + 1
             /\ hops(k, Len(ships)) = ships[k].t
             /\ root_of(k, Len(ships)) = start_ship

\* a Ship two links away from the root exists
C18_Witness ==
    \E k \in 1..Len(ships) :
        /\ ships[k].parent # 0
        /\ ships[ships[k].parent].parent # 0

RECURSIVE replay(_, _, _, _)
\* the (position, velocity) reached from (p, vel) by the accelerations
\* seq[k], seq[k + 1], ...: v' = v + d, p' = p + v + d
replay(seq, k, p, vel) ==
    IF k > Len(seq) THEN <<p, vel>>
    ELSE replay(seq, k + 1, p + vel + seq[k], vel + seq[k])

\* C19: replaying the logged acceleration list from position 0, velocity 0
\* gives the returned Ship's pos and v; every acceleration is -1, 0 or 1 and
\* the list is as long as the returned Ship's t.
C19_ReplayReproduces ==
    pc = "done" =>
        /\ replay(solution, 1, 0, 0) = <<ships[child].pos, ships[child].v>>
        /\ \A k \in 1..Len(solution) : solution[k] \in {-1, 0, 1}
        /\ Len(solution) = ships[child].t

\* a logged list of at least two accelerations that are not all equal
C19_Witness ==
    /\ pc = "done"
    /\ Len(solution) >= 2
    /\ \E k \in 1..Len(solution) : solution[k] # solution[1]

\* C20: every Ship with pos >= len(asteroids) that get_queue creates has
\* acceleration +1 and is the only element of the returned list; the
\* finishing return drops no candidate accumulated before it.
C20_EscapeOnlyFirst ==
    /\ \A k \in 1..Len(ships) :
          (ships[k].parent # 0 /\ ships[k].pos >= Len(asteroids)) =>
              ships[k].d = 1
    /\ (\E k \in 1..Len(last_call.out) :
            ships[last_call.out[k]].pos >= Len(asteroids)) =>
           Len(last_call.out) = 1
    /\ last_call.discarded = 0

\* a call on a moving Ship other than the root that returned an escape Ship
\* although its directions 0 and -1 led to positions on the belt
C20_Witness ==
    /\ last_call.self # 0
    /\ last_call.self # start_ship
    /\ last_call.status = "returned"
    /\ ships[last_call.self].pos + ships[last_call.self].v
           < Len(asteroids)

====
